---------------------------- MODULE Spec2Model ----------------------------
(***************************************************************************)
(* A model of the walnut block-structured image (src/src/lib.rs,           *)
(* src/src/util.rs): superblock, block groups with their bitmaps, inodes   *)
(* with inline or multi-region data, the directory index and the           *)
(* directories, and the keystream applied to every payload.                *)
(*                                                                         *)
(* The image is modelled block by block: disk maps a block number (byte    *)
(* offset divided by BLOCK_SIZE) to what was last written there.  Sizes    *)
(* are scaled down: a block holds BLOCK_SIZE bytes, a group has            *)
(* BLOCKS_PER_GROUP bits, and the serialised records use one byte per      *)
(* field, so that inline/region switches, full groups and fragmented       *)
(* bitmaps are reached after a handful of operations.                      *)
(***************************************************************************)
EXTENDS Integers, Sequences, FiniteSets, TLC

----------------------------------------------------------------------------
(* Program constants, scaled (lib.rs:18-22).                               *)

ROOT_INODE_INDEX == 2

\* lib.rs:19 BLOCK_SIZE = 4096, scaled
BLOCK_SIZE == 10

\* lib.rs:20 BLOCKS_PER_GROUP = BLOCK_SIZE * 8, scaled
BLOCKS_PER_GROUP == 6

\* lib.rs:21 INODE_CAPACITY = 4047, scaled
INODE_CAPACITY == 4

\* lib.rs:22 INODE_MAX_REGION = 500, scaled
INODE_MAX_REGION == 2

\* u32 arithmetic wraps at 2^32 (release build).  In the program
\* 2^32 = 32 * BLOCKS_PER_GROUP * BLOCK_SIZE; the modulus keeps that proportion.
U32 == 32 * BLOCKS_PER_GROUP * BLOCK_SIZE

Wrap32(x) == x % U32

----------------------------------------------------------------------------
(* Bounds of the exploration.                                              *)

\* number of public operations performed on the image after init
MaxOps == 5

\* number of groups a write may grow the image to
MaxGroups == 3

\* directory paths and file names offered to the operations
Dirs == {1, 2}

Names == {1, 2}

----------------------------------------------------------------------------
(* Bytes.                                                                  *)

RECURSIVE BitXor(_, _)
BitXor(a, b) ==
    IF a = 0 THEN b
    ELSE IF b = 0 THEN a
    ELSE (((a % 2) + (b % 2)) % 2) + 2 * BitXor(a \div 2, b \div 2)

RECURSIVE BitAnd(_, _)
BitAnd(a, b) ==
    IF a = 0 \/ b = 0 THEN 0
    ELSE ((a % 2) * (b % 2)) + 2 * BitAnd(a \div 2, b \div 2)

RECURSIVE SumSeq(_)
SumSeq(s) == IF s = <<>> THEN 0 ELSE Head(s) + SumSeq(Tail(s))

Min(a, b) == IF a < b THEN a ELSE b

\* util.rs:74 table[i] = secret[i & (len - 1)]
create_lookup_table(secret, block_size) ==
    [i \in 1..block_size |-> secret[BitAnd(i - 1, Len(secret) - 1) + 1]]

\* encrypt with a wrapping addition in place of the exclusive or
encrypt_add(bytes, table) ==
    [i \in 1..Len(bytes) |->
        IF i <= Len(table) THEN (bytes[i] + table[i]) % 256 ELSE bytes[i]]

\* util.rs:58 zip stops at the shorter of the buffer and the table
encrypt(bytes, table) ==
    [i \in 1..Len(bytes) |->
        IF i <= Len(table) THEN BitXor(bytes[i], table[i]) ELSE bytes[i]]

\* the secret the image is initialised and opened with
Secret == <<5, 9>>

lookup_table == create_lookup_table(Secret, BLOCK_SIZE)

\* crc32 of a byte string, scaled to one byte: position-weighted sum
RECURSIVE WeightedSum(_, _)
WeightedSum(bytes, i) ==
    IF i > Len(bytes) THEN 0
    ELSE (i * (bytes[i] + 1)) + WeightedSum(bytes, i + 1)

crc32(bytes) == (WeightedSum(bytes, 1) + Len(bytes) + 1) % 251

----------------------------------------------------------------------------
(* Addresses (Group, lib.rs:840-865; util.rs:52).                          *)

seek_position(group_index) ==
    Wrap32(BLOCK_SIZE
           + Wrap32(group_index
                    * Wrap32(BLOCK_SIZE + Wrap32(BLOCKS_PER_GROUP * BLOCK_SIZE))))

create_public_address(group_index, bitmap_index) ==
    Wrap32(seek_position(group_index) \div BLOCK_SIZE + bitmap_index + 1)

\* translate_public_address without the reduction modulo group_index * n
translate_public_address_no_mod(block_index) ==
    LET b == Wrap32(block_index - 1)
        n == BLOCKS_PER_GROUP + 1
    IN  <<b \div n, Wrap32(b - 1)>>

\* block_index -= 1; n = BLOCKS_PER_GROUP + 1; the u32 subtractions wrap
translate_public_address(block_index) ==
    LET b == Wrap32(block_index - 1)
        n == BLOCKS_PER_GROUP + 1
        group_index == b \div n
        bitmap_index == IF group_index = 0
                          THEN Wrap32(b - 1)
                          ELSE Wrap32((b % (group_index * n)) - 1)
    IN  <<group_index, bitmap_index>>

block_seek_position(block_index) == Wrap32(block_index * BLOCK_SIZE)

\* the block number a byte offset falls in
BlockNo(offset) == offset \div BLOCK_SIZE

----------------------------------------------------------------------------
(* Group (lib.rs:824-1031): a bitmap, bit k at sequence index k + 1.       *)

Group_init == [i \in 1..BLOCKS_PER_GROUP |-> FALSE]

count_zeros(bitmap) == Cardinality({i \in 1..Len(bitmap) : ~bitmap[i]})

count_ones(bitmap) == Cardinality({i \in 1..Len(bitmap) : bitmap[i]})

total_data_blocks(bitmap) == Len(bitmap)

\* BitVec::set panics when the index is out of bounds
InBitmap(bitmap, bitmap_index) == bitmap_index >= 0 /\ bitmap_index < Len(bitmap)

SetBit(bitmap, bitmap_index, v) == [bitmap EXCEPT ![bitmap_index + 1] = v]

release_one(bitmap, bitmap_index) == SetBit(bitmap, bitmap_index, FALSE)

\* release_data_region with an inclusive upper bound: one bit too many
release_data_region_inclusive(bitmap, bitmap_index, length) ==
    [i \in 1..Len(bitmap) |->
        IF i - 1 >= bitmap_index /\ i - 1 <= bitmap_index + length
        THEN FALSE ELSE bitmap[i]]

release_data_region(bitmap, bitmap_index, length) ==
    [i \in 1..Len(bitmap) |->
        IF i - 1 >= bitmap_index /\ i - 1 < bitmap_index + length
        THEN FALSE ELSE bitmap[i]]

force_allocate_at(bitmap, bitmap_index) == SetBit(bitmap, bitmap_index, TRUE)

\* iter_zeros().next(): the lowest clear bit, or none
HasZero(bitmap) == \E i \in 1..Len(bitmap) : ~bitmap[i]

FirstZero(bitmap) ==
    CHOOSE k \in 0..(Len(bitmap) - 1) :
        /\ ~bitmap[k + 1]
        /\ \A j \in 0..(k - 1) : bitmap[j + 1]

\* allocate_one taking the highest clear bit instead of the lowest
LastZero(bitmap) ==
    CHOOSE k \in 0..(Len(bitmap) - 1) :
        /\ ~bitmap[k + 1]
        /\ \A j \in (k + 1)..(Len(bitmap) - 1) : bitmap[j + 1]

allocate_one_last_fit(bitmap, group_index) ==
    IF HasZero(bitmap)
    THEN [some |-> TRUE,
          bitmap |-> SetBit(bitmap, LastZero(bitmap), TRUE),
          addr |-> create_public_address(group_index, LastZero(bitmap))]
    ELSE [some |-> FALSE, bitmap |-> bitmap, addr |-> 0]

allocate_one(bitmap, group_index) ==
    IF HasZero(bitmap)
    THEN [some |-> TRUE,
          bitmap |-> SetBit(bitmap, FirstZero(bitmap), TRUE),
          addr |-> create_public_address(group_index, FirstZero(bitmap))]
    ELSE [some |-> FALSE, bitmap |-> bitmap, addr |-> 0]

\* One pass of the while-let loop of allocate_region at bitmap_index i.
\* region is <<>> (None) or <<start, length>> (Some).
RECURSIVE RegionScan(_, _, _, _, _, _, _)
RegionScan(bitmap, group_index, i, left, regions, region, max_regions) ==
    IF i >= Len(bitmap)
    THEN [bitmap |-> bitmap, regions |-> regions, left |-> left]
    ELSE IF left = 0
    THEN [bitmap |-> bitmap,
          regions |-> IF region # <<>> THEN Append(regions, region) ELSE regions,
          left |-> left]
    ELSE IF ~bitmap[i + 1]
    THEN LET region1 == IF region # <<>>
                          THEN <<region[1], region[2] + 1>>
                          ELSE <<create_public_address(group_index, i), 1>>
             bitmap1 == SetBit(bitmap, i, TRUE)
         IN  IF i = Len(bitmap) - 1
             THEN [bitmap |-> bitmap1,
                   regions |-> Append(regions, region1),
                   left |-> left - 1]
             ELSE RegionScan(bitmap1, group_index, i + 1, left - 1,
                             regions, region1, max_regions)
    ELSE LET regions1 == IF region # <<>> THEN Append(regions, region)
                                            ELSE regions
         IN  IF region # <<>> /\ Len(regions1) = max_regions
             THEN [bitmap |-> bitmap, regions |-> regions1, left |-> left]
             ELSE RegionScan(bitmap, group_index, i + 1, left,
                             regions1, <<>>, max_regions)

\* allocate_region without the clean-up of lib.rs:1008-1014: a region still
\* open when the scan reaches the last bit is never pushed
allocate_region_drops_open_region(bitmap, group_index, blocks_to_allocate, max_regions) ==
    LET res == RegionScan(bitmap, group_index, 0, blocks_to_allocate, <<>>, <<>>,
                          max_regions)
    IN  IF /\ Len(bitmap) > 0
           /\ ~bitmap[Len(bitmap)]
           /\ res.bitmap[Len(bitmap)]
           /\ res.regions # <<>>
        THEN [res EXCEPT !.regions = SubSeq(@, 1, Len(@) - 1)]
        ELSE res

\* allocate_region stopping one region after the budget
allocate_region_over_budget(bitmap, group_index, blocks_to_allocate, max_regions) ==
    RegionScan(bitmap, group_index, 0, blocks_to_allocate, <<>>, <<>>, max_regions + 1)

allocate_region(bitmap, group_index, blocks_to_allocate, max_regions) ==
    RegionScan(bitmap, group_index, 0, blocks_to_allocate, <<>>, <<>>, max_regions)

----------------------------------------------------------------------------
(* Records and their serialised form (bincode, scaled to one byte per      *)
(* field; a map is its length followed by its key/value pairs in key       *)
(* order).                                                                 *)

\* Data::Raw(bytes) | Data::DirectPointers(pointers), lib.rs:1043
Raw(bytes) == [tag |-> "Raw", bytes |-> bytes, ptrs |-> <<>>]

DirectPointers(pointers) == [tag |-> "DirectPointers", bytes |-> <<>>, ptrs |-> pointers]

\* Inode::new, lib.rs:1056
Inode_new(block_index) == [block_index |-> block_index, size |-> 0, data |-> Raw(<<>>)]

RECURSIVE FlattenPairs(_)
FlattenPairs(pairs) ==
    IF pairs = <<>> THEN <<>>
    ELSE <<Head(pairs)[1], Head(pairs)[2]>> \o FlattenPairs(Tail(pairs))

\* block_index, size, the enum tag, the length prefix, then the body
Inode_serialize(inode) ==
    IF inode.data.tag = "Raw"
    THEN <<inode.block_index, inode.size, 0, Len(inode.data.bytes)>>
         \o inode.data.bytes
    ELSE <<inode.block_index, inode.size, 1, Len(inode.data.ptrs)>>
         \o FlattenPairs(inode.data.ptrs)

\* a BTreeMap as a sequence of <<key, value>> in increasing key order
MapGet(pairs, key) ==
    IF \E i \in 1..Len(pairs) : pairs[i][1] = key
    THEN [some |-> TRUE,
          v |-> pairs[CHOOSE i \in 1..Len(pairs) : pairs[i][1] = key][2]]
    ELSE [some |-> FALSE, v |-> 0]

MapRemove(pairs, key) == SelectSeq(pairs, LAMBDA e : e[1] # key)

MapInsert(pairs, key, value) ==
    LET rest == MapRemove(pairs, key)
        lower == SelectSeq(rest, LAMBDA e : e[1] < key)
        upper == SelectSeq(rest, LAMBDA e : e[1] > key)
    IN  lower \o <<<<key, value>>>> \o upper

MapKeys(pairs) == {pairs[i][1] : i \in 1..Len(pairs)}

MapValues(pairs) == {pairs[i][2] : i \in 1..Len(pairs)}

\* Directory and DirectoryIndex serialise alike: the map, then the checksum
Map_serialize(pairs, checksum) == <<Len(pairs)>> \o FlattenPairs(pairs) \o <<checksum>>

\* bincode::deserialize: fails when the bytes end early, ignores trailing bytes
Map_deserializable(bytes) ==
    /\ Len(bytes) >= 2
    /\ Len(bytes) >= 2 + 2 * bytes[1]

RECURSIVE InsertAll(_, _)
InsertAll(acc, pairs) ==
    IF pairs = <<>> THEN acc
    ELSE InsertAll(MapInsert(acc, Head(pairs)[1], Head(pairs)[2]), Tail(pairs))

Map_deserialize(bytes) ==
    LET n == bytes[1]
        raw == [i \in 1..n |-> <<bytes[2 * i], bytes[2 * i + 1]>>]
    IN  [map |-> InsertAll(<<>>, raw), checksum |-> bytes[2 * n + 2]]

\* DirectoryIndex, lib.rs:1131-1198
DirectoryIndex_checksum(di) ==
    [di EXCEPT !.checksum = crc32(Map_serialize(di.directories, 0))]

DirectoryIndex_verify_checksum(di) ==
    di.checksum = crc32(Map_serialize(di.directories, 0))

DirectoryIndex_init == DirectoryIndex_checksum([directories |-> <<>>, checksum |-> 0])

find_dir(di, dir) == MapGet(di.directories, dir)

\* None when the path is already present
create_dir(di, dir, inode_index) ==
    IF find_dir(di, dir).some
    THEN [some |-> FALSE, di |-> di]
    ELSE [some |-> TRUE,
          di |-> [di EXCEPT !.directories = MapInsert(@, dir, inode_index)]]

\* move_dir that inserts the target and leaves the source entry in place
move_dir_keeps_from(di, from, to) ==
    IF ~find_dir(di, from).some THEN [r |-> "Err", di |-> di]
    ELSE IF find_dir(di, to).some THEN [r |-> "Err", di |-> di]
    ELSE [r |-> "Ok",
          di |-> [di EXCEPT !.directories =
                     MapInsert(@, to, find_dir(di, from).v)]]

move_dir(di, from, to) ==
    IF ~find_dir(di, from).some THEN [r |-> "Err", di |-> di]
    ELSE IF find_dir(di, to).some THEN [r |-> "Err", di |-> di]
    ELSE [r |-> "Ok",
          di |-> [di EXCEPT !.directories =
                     MapInsert(MapRemove(@, from), to, find_dir(di, from).v)]]

\* Directory, lib.rs:1200-1250
Directory_checksum(d) == [d EXCEPT !.checksum = crc32(Map_serialize(d.files, 0))]

Directory_verify_checksum(d) == d.checksum = crc32(Map_serialize(d.files, 0))

Directory_init == Directory_checksum([files |-> <<>>, checksum |-> 0])

get_file(d, file_name) == MapGet(d.files, file_name)

Directory_add_file(d, file_name, inode_block_index) ==
    IF get_file(d, file_name).some
    THEN [r |-> "Err", d |-> d]
    ELSE [r |-> "Ok", d |-> [d EXCEPT !.files = MapInsert(@, file_name, inode_block_index)]]

Directory_remove_file(d, file_name) ==
    IF get_file(d, file_name).some
    THEN [r |-> "Ok", d |-> [d EXCEPT !.files = MapRemove(@, file_name)]]
    ELSE [r |-> "Err", d |-> d]

\* Superblock, lib.rs:744-822 (timestamps left out)
Superblock_serialize(sb) ==
    <<1, BLOCK_SIZE, sb.group_count, sb.block_count, sb.free_blocks,
      sb.file_count, sb.checksum>>

Superblock_checksum(sb) ==
    [sb EXCEPT !.checksum = crc32(Superblock_serialize([sb EXCEPT !.checksum = 0]))]

Superblock_verify_checksum(sb) ==
    sb.checksum = crc32(Superblock_serialize([sb EXCEPT !.checksum = 0]))

Superblock_new ==
    [group_count |-> 0, block_count |-> 1, free_blocks |-> 0,
     file_count |-> 0, checksum |-> 0]

----------------------------------------------------------------------------
(* The facade FS (lib.rs:26-742), as functions of the record               *)
(*   fs = [superblock, groups, disk, file_len]                             *)
(* superblock and groups are the in-memory fields, disk and file_len the   *)
(* image file.  A fallible function returns its outcome r, "Ok", "Err"     *)
(* (an Err value returned) or "Panic" (unwrap, assert or index failure),   *)
(* with the facade fs as it is at that point.                              *)

\* let v = ...; the rest of the function body is F
Let(v, F(_)) == F(v)

Take(bytes, n) == [i \in 1..n |-> IF i <= Len(bytes) THEN bytes[i] ELSE 0]

Drop(bytes, n) == [i \in 1..(Len(bytes) - n) |-> bytes[i + n]]

\* the bytes found in a block, whatever was written there
BlockBytes(fs, blk) ==
    IF blk \notin DOMAIN fs.disk THEN <<>>
    ELSE LET b == fs.disk[blk]
         IN  CASE b.k = "dat" -> b.v
               [] b.k = "ino" -> Inode_serialize(b.v)
               [] b.k = "bm"  -> [i \in 1..Len(b.v) |-> IF b.v[i] THEN 1 ELSE 0]
               [] b.k = "sb"  -> Superblock_serialize(b.v)

WriteBlock(fs, offset, kind, value) ==
    [fs EXCEPT !.disk = (BlockNo(offset) :> [k |-> kind, v |-> value]) @@ @,
               !.file_len = IF offset + BLOCK_SIZE > @ THEN offset + BLOCK_SIZE ELSE @]

\* lib.rs:397 get_inode.  A block never written reads as zeroes, which
\* deserialise as an empty inode; a block holding anything but an inode
\* does not deserialise.
get_inode(fs, inode_block_index) ==
    LET offset == block_seek_position(inode_block_index)
        blk == BlockNo(offset)
    IN  IF offset >= fs.file_len
        THEN [r |-> "Err", inode |-> Inode_new(0)]
        ELSE IF blk \notin DOMAIN fs.disk
        THEN [r |-> "Ok", inode |-> Inode_new(0)]
        ELSE IF fs.disk[blk].k = "ino"
        THEN [r |-> "Ok", inode |-> fs.disk[blk].v]
        ELSE [r |-> "Err", inode |-> Inode_new(0)]

\* lib.rs:412 save_inode; Inode::serialize_into asserts the length
save_inode(fs, inode) ==
    IF Len(Inode_serialize(inode)) > BLOCK_SIZE
    THEN [r |-> "Panic", fs |-> fs]
    ELSE [r |-> "Ok",
          fs |-> WriteBlock(fs, block_seek_position(inode.block_index), "ino", inode)]

\* lib.rs:424 save_group
save_group(fs, group, group_index) ==
    IF group_index >= Len(fs.groups)
    THEN [r |-> "Panic", fs |-> fs]
    ELSE [r |-> "Ok",
          fs |-> WriteBlock([fs EXCEPT !.groups[group_index + 1] = group],
                            seek_position(group_index), "bm", group)]

\* lib.rs:363 superblock_check
superblock_check(fs) ==
    [fs EXCEPT !.superblock =
        Superblock_checksum(
            [@ EXCEPT !.group_count = Wrap32(Len(fs.groups)),
                      !.free_blocks =
                          Wrap32(SumSeq([g \in 1..Len(fs.groups) |->
                                            count_zeros(fs.groups[g])])),
                      !.block_count =
                          Wrap32(SumSeq([g \in 1..Len(fs.groups) |->
                                            total_data_blocks(fs.groups[g])]))])]

\* lib.rs:385 save_superblock
save_superblock(fs) ==
    Let(superblock_check(fs), LAMBDA fs1 : WriteBlock(fs1, 0, "sb", fs1.superblock))

\* lib.rs:630 truncate: the length is computed in u32
truncate(fs) ==
    LET size == Wrap32(BLOCK_SIZE
                       + Wrap32(Wrap32(Len(fs.groups))
                                * Wrap32(BLOCK_SIZE
                                         + Wrap32(BLOCKS_PER_GROUP * BLOCK_SIZE))))
        kept == {b \in DOMAIN fs.disk : b * BLOCK_SIZE < size}
    IN  [fs EXCEPT !.file_len = size, !.disk = [b \in kept |-> fs.disk[b]]]

\* lib.rs:663 add_group
add_group(fs, group) ==
    Let([fs EXCEPT !.groups = Append(@, group)], LAMBDA fs1 :
    Let(save_group(fs1, group, Wrap32(Len(fs1.groups)) - 1), LAMBDA sg :
    save_superblock(truncate([sg.fs EXCEPT !.superblock.group_count = Wrap32(@ + 1)]))))

\* lib.rs:641 allocate_inode: the bit is set in the in-memory group only
RECURSIVE AllocateInodeFrom(_, _)
AllocateInodeFrom(fs, group_index) ==
    IF group_index >= Len(fs.groups)
    THEN [some |-> FALSE, fs |-> fs, inode |-> Inode_new(0)]
    ELSE LET a == allocate_one(fs.groups[group_index + 1], group_index)
         IN  IF a.some
             THEN [some |-> TRUE,
                   fs |-> [fs EXCEPT !.groups[group_index + 1] = a.bitmap],
                   inode |-> Inode_new(a.addr)]
             ELSE AllocateInodeFrom(fs, group_index + 1)

allocate_inode(fs) ==
    Let(AllocateInodeFrom(fs, 0), LAMBDA a :
    IF a.some
    THEN [some |-> TRUE, fs |-> save_inode(a.fs, a.inode).fs, inode |-> a.inode]
    ELSE a)

\* lib.rs:694 release_inode_data: release on a copy of the groups, then
\* save every group
RECURSIVE ReleaseRegions(_, _)
ReleaseRegions(groups, data_pointers) ==
    IF data_pointers = <<>> THEN [r |-> "Ok", groups |-> groups]
    ELSE LET t == translate_public_address(Head(data_pointers)[1])
             range == Head(data_pointers)[2]
         IN  IF t[1] >= Len(groups)
                \/ (range > 0 /\ t[2] + range > Len(groups[t[1] + 1]))
             THEN [r |-> "Panic", groups |-> groups]
             ELSE ReleaseRegions(
                      [groups EXCEPT ![t[1] + 1] = release_data_region(@, t[2], range)],
                      Tail(data_pointers))

RECURSIVE SaveGroups(_, _, _)
SaveGroups(fs, groups, group_index) ==
    IF group_index >= Len(groups) THEN fs
    ELSE SaveGroups(save_group(fs, groups[group_index + 1], group_index).fs,
                    groups, group_index + 1)

release_inode_data(fs, data_pointers) ==
    Let(ReleaseRegions(fs.groups, data_pointers), LAMBDA rel :
    IF rel.r = "Ok"
    THEN [r |-> "Ok", fs |-> SaveGroups(fs, rel.groups, 0)]
    ELSE [r |-> rel.r, fs |-> fs])

\* release_inode without the release of the inode's data regions
release_inode_keeps_data(fs, inode_block_index) ==
    Let(get_inode(fs, inode_block_index), LAMBDA gi :
    IF gi.r # "Ok" THEN [r |-> "Err", fs |-> fs]
    ELSE Let(translate_public_address(inode_block_index), LAMBDA t :
    IF t[1] >= Len(fs.groups) \/ ~InBitmap(fs.groups[t[1] + 1], t[2])
    THEN [r |-> "Panic", fs |-> fs]
    ELSE save_group(fs, release_one(fs.groups[t[1] + 1], t[2]), t[1])))

\* lib.rs:714 release_inode
release_inode(fs, inode_block_index) ==
    Let(get_inode(fs, inode_block_index), LAMBDA gi :
    IF gi.r # "Ok" THEN [r |-> "Err", fs |-> fs]
    ELSE Let(IF gi.inode.data.tag = "Raw"
             THEN [r |-> "Ok", fs |-> fs]
             ELSE release_inode_data(fs, gi.inode.data.ptrs), LAMBDA rd :
    IF rd.r # "Ok" THEN rd
    ELSE Let(translate_public_address(inode_block_index), LAMBDA t :
    IF t[1] >= Len(rd.fs.groups) \/ ~InBitmap(rd.fs.groups[t[1] + 1], t[2])
    THEN [r |-> "Panic", fs |-> rd.fs]
    ELSE save_group(rd.fs, release_one(rd.fs.groups[t[1] + 1], t[2]), t[1]))))

----------------------------------------------------------------------------
(* Read and write path (lib.rs:436-627).                                   *)

\* the block numbers a list of (start, length) ranges is read or written at:
\* a seek to block_seek_position(start), then length consecutive blocks
RECURSIVE RangeBlocks(_)
RangeBlocks(ranges) ==
    IF ranges = <<>> THEN <<>>
    ELSE [j \in 1..Head(ranges)[2] |->
             BlockNo(block_seek_position(Head(ranges)[1])) + j - 1]
         \o RangeBlocks(Tail(ranges))

\* lib.rs:462-489: the buffer shrinks to data_left for the last block
RECURSIVE ReadLoop(_, _, _, _)
ReadLoop(fs, blocks, data_left, out) ==
    IF blocks = <<>> THEN [r |-> "Ok", bytes |-> out]
    ELSE LET n == Min(BLOCK_SIZE, data_left)
             blk == Head(blocks)
         IN  IF n > 0 /\ blk * BLOCK_SIZE + n > fs.file_len
             THEN [r |-> "Err", bytes |-> out]
             ELSE ReadLoop(fs, Tail(blocks), data_left - n,
                           out \o encrypt(Take(BlockBytes(fs, blk), n), lookup_table))

read_inode_data(fs, inode) ==
    IF inode.data.tag = "Raw"
    THEN [r |-> "Ok", bytes |-> encrypt(inode.data.bytes, lookup_table)]
    ELSE ReadLoop(fs, RangeBlocks(inode.data.ptrs), inode.size, <<>>)

\* lib.rs:594-618: data.read_exact fails when the reader runs out
RECURSIVE WriteLoop(_, _, _, _)
WriteLoop(fs, blocks, data, data_left) ==
    IF blocks = <<>> THEN [r |-> "Ok", fs |-> fs, data_left |-> data_left]
    ELSE LET n == Min(BLOCK_SIZE, data_left)
             blk == Head(blocks)
         IN  IF Len(data) < n
             THEN [r |-> "Err", fs |-> fs, data_left |-> data_left]
             ELSE WriteLoop(
                      IF n = 0 THEN fs
                      ELSE WriteBlock(fs, blk * BLOCK_SIZE, "dat",
                                      encrypt(Take(data, n), lookup_table)),
                      Tail(blocks), Drop(data, n), data_left - n)

\* blocks_to_allocate with one block too many for whole-block sizes
blocks_to_allocate_plus_one(data_size) == (data_size \div BLOCK_SIZE) + 1

\* lib.rs:547 blocks_to_allocate
blocks_to_allocate(data_size) ==
    (data_size \div BLOCK_SIZE) + (IF data_size % BLOCK_SIZE # 0 THEN 1 ELSE 0)

\* lib.rs:555 while free_blocks < need: add_group
RECURSIVE GrowGroups(_, _)
GrowGroups(fs, need) ==
    IF fs.superblock.free_blocks < Wrap32(need)
    THEN GrowGroups(add_group(fs, Group_init), need)
    ELSE fs

\* lib.rs:560-580: one allocate_region per group of the copy, in index order
RECURSIVE AllocatePass(_, _, _, _, _)
AllocatePass(fs, groups, group_index, left, ranges) ==
    IF group_index >= Len(groups)
    THEN [fs |-> fs, ranges |-> ranges, left |-> left]
    ELSE IF left > 0
    THEN LET a == allocate_region(groups[group_index + 1], group_index,
                                  left, INODE_MAX_REGION)
         IN  AllocatePass(save_group(fs, a.bitmap, group_index).fs, groups,
                          group_index + 1, a.left, ranges \o a.regions)
    ELSE AllocatePass(fs, groups, group_index + 1, left, ranges)

\* lib.rs:1102 set_raw_data
set_raw_data(inode, buffer, data_size) ==
    IF Len(buffer) # data_size THEN [r |-> "Err", inode |-> inode]
    ELSE IF Len(buffer) > INODE_CAPACITY THEN [r |-> "Err", inode |-> inode]
    ELSE [r |-> "Ok", inode |-> [inode EXCEPT !.size = data_size, !.data = Raw(buffer)]]

\* lib.rs:1125 set_direct_pointers
set_direct_pointers(inode, pointers, data_size) ==
    [inode EXCEPT !.data = DirectPointers(pointers), !.size = data_size]

\* lib.rs:536-626, the path for data that does not fit the inode
WriteRegions(fs, inode, data, data_len) ==
    Let(save_inode(fs, [inode EXCEPT !.size = data_len]), LAMBDA s1 :
    IF s1.r # "Ok" THEN s1
    ELSE Let(GrowGroups(s1.fs, blocks_to_allocate(data_len)), LAMBDA fs2 :
    Let(AllocatePass(fs2, fs2.groups, 0, blocks_to_allocate(data_len), <<>>), LAMBDA ap :
    Let(save_inode(ap.fs, set_direct_pointers(inode, ap.ranges, data_len)), LAMBDA s3 :
    IF s3.r # "Ok" THEN s3
    ELSE Let(WriteLoop(s3.fs, RangeBlocks(ap.ranges), data, data_len), LAMBDA wl :
    IF wl.r # "Ok" THEN [r |-> wl.r, fs |-> wl.fs]
    ELSE IF wl.data_left # 0 THEN [r |-> "Panic", fs |-> wl.fs]
    ELSE [r |-> "Ok", fs |-> wl.fs])))))

\* write_inode_data with the inline test data_len < INODE_CAPACITY
write_inode_data_below_capacity(fs, inode, data, data_len) ==
    Let(IF inode.data.tag = "Raw"
        THEN [r |-> "Ok", fs |-> fs]
        ELSE release_inode_data(fs, inode.data.ptrs), LAMBDA rel :
    IF rel.r # "Ok" THEN rel
    ELSE IF data_len < INODE_CAPACITY
    THEN Let(set_raw_data(inode, encrypt(data, lookup_table), data_len), LAMBDA sr :
         IF sr.r # "Ok" THEN [r |-> "Err", fs |-> rel.fs]
         ELSE save_inode(rel.fs, sr.inode))
    ELSE WriteRegions(rel.fs, inode, data, data_len))

\* lib.rs:497 write_inode_data; data is what the reader yields
write_inode_data(fs, inode, data, data_len) ==
    Let(IF inode.data.tag = "Raw"
        THEN [r |-> "Ok", fs |-> fs]
        ELSE release_inode_data(fs, inode.data.ptrs), LAMBDA rel :
    IF rel.r # "Ok" THEN rel
    ELSE IF data_len <= INODE_CAPACITY
    THEN Let(set_raw_data(inode, encrypt(data, lookup_table), data_len), LAMBDA sr :
         IF sr.r # "Ok" THEN [r |-> "Err", fs |-> rel.fs]
         ELSE save_inode(rel.fs, sr.inode))
    ELSE WriteRegions(rel.fs, inode, data, data_len))

----------------------------------------------------------------------------
(* Directory index and directories through the inode layer                 *)
(* (lib.rs:112-214).                                                       *)

NoIndex == [directories |-> <<>>, checksum |-> 0]

NoDirectory == [files |-> <<>>, checksum |-> 0]

\* get_directory_index that skips the checksum verification
get_directory_index_unverified(fs) ==
    Let(get_inode(fs, ROOT_INODE_INDEX), LAMBDA gi :
    IF gi.r # "Ok" THEN [r |-> "Err", di |-> NoIndex]
    ELSE Let(read_inode_data(fs, gi.inode), LAMBDA rd :
    IF rd.r # "Ok" \/ ~Map_deserializable(rd.bytes) THEN [r |-> "Err", di |-> NoIndex]
    ELSE Let(Map_deserialize(rd.bytes), LAMBDA m :
    [r |-> "Ok", di |-> [directories |-> m.map, checksum |-> m.checksum]])))

\* lib.rs:113 get_directory_index: the checksum is verified
get_directory_index(fs) ==
    Let(get_inode(fs, ROOT_INODE_INDEX), LAMBDA gi :
    IF gi.r # "Ok" THEN [r |-> "Err", di |-> NoIndex]
    ELSE Let(read_inode_data(fs, gi.inode), LAMBDA rd :
    IF rd.r # "Ok" \/ ~Map_deserializable(rd.bytes) THEN [r |-> "Err", di |-> NoIndex]
    ELSE Let(Map_deserialize(rd.bytes), LAMBDA m :
    Let([directories |-> m.map, checksum |-> m.checksum], LAMBDA di :
    IF ~DirectoryIndex_verify_checksum(di) THEN [r |-> "Err", di |-> NoIndex]
    ELSE [r |-> "Ok", di |-> di]))))

\* lib.rs:135 save_directory_index: the checksum is set before serialising
save_directory_index(fs, directory_index) ==
    Let(get_inode(fs, ROOT_INODE_INDEX), LAMBDA gi :
    IF gi.r # "Ok" THEN [r |-> "Err", fs |-> fs]
    ELSE Let(DirectoryIndex_checksum(directory_index), LAMBDA di :
    Let(Map_serialize(di.directories, di.checksum), LAMBDA data :
    write_inode_data(fs, gi.inode, data, Len(data)))))

\* lib.rs:150 init_directory_index
init_directory_index(fs) ==
    Let(Map_serialize(DirectoryIndex_init.directories, DirectoryIndex_init.checksum),
        LAMBDA di_data :
    write_inode_data(save_inode(fs, Inode_new(ROOT_INODE_INDEX)).fs,
                     Inode_new(ROOT_INODE_INDEX), di_data, Len(di_data)))

\* lib.rs:168 find_directory: the directory's checksum is not verified
find_directory(fs, dir) ==
    Let(get_directory_index(fs), LAMBDA gdi :
    IF gdi.r # "Ok" THEN [r |-> "Err", d |-> NoDirectory, index |-> 0]
    ELSE Let(find_dir(gdi.di, dir), LAMBDA f :
    IF ~f.some THEN [r |-> "Err", d |-> NoDirectory, index |-> 0]
    ELSE Let(get_inode(fs, f.v), LAMBDA gi :
    IF gi.r # "Ok" THEN [r |-> "Err", d |-> NoDirectory, index |-> 0]
    ELSE Let(read_inode_data(fs, gi.inode), LAMBDA rd :
    IF rd.r # "Ok" \/ ~Map_deserializable(rd.bytes)
    THEN [r |-> "Err", d |-> NoDirectory, index |-> 0]
    ELSE Let(Map_deserialize(rd.bytes), LAMBDA m :
    [r |-> "Ok", d |-> [files |-> m.map, checksum |-> m.checksum], index |-> f.v])))))

\* lib.rs:199 save_directory: serialised as it is, the checksum is not set
save_directory(fs, directory, directory_inode_index) ==
    Let(get_inode(fs, directory_inode_index), LAMBDA gi :
    IF gi.r # "Ok" THEN [r |-> "Err", fs |-> fs]
    ELSE Let(Map_serialize(directory.files, directory.checksum), LAMBDA data :
    write_inode_data(fs, gi.inode, data, Len(data))))

----------------------------------------------------------------------------
(* Public operations (lib.rs:36-110, 216-360).                             *)

\* create_directory that keeps the inode bit it allocated for a path the
\* index already holds
create_directory_keeps_duplicate(fs, dir) ==
    Let(get_directory_index(fs), LAMBDA gdi :
    IF gdi.r # "Ok" THEN [r |-> "Err", fs |-> fs, ret |-> NoDirectory]
    ELSE Let(allocate_inode(fs), LAMBDA ai :
    IF ~ai.some THEN [r |-> "Err", fs |-> ai.fs, ret |-> NoDirectory]
    ELSE Let(create_dir(gdi.di, dir, ai.inode.block_index), LAMBDA cd :
    Let(save_directory_index(ai.fs, cd.di), LAMBDA sdi :
    IF sdi.r # "Ok" THEN [r |-> sdi.r, fs |-> sdi.fs, ret |-> NoDirectory]
    ELSE Let(save_directory(sdi.fs, Directory_init, ai.inode.block_index), LAMBDA sd :
    IF sd.r # "Ok" THEN [r |-> sd.r, fs |-> sd.fs, ret |-> NoDirectory]
    ELSE [r |-> "Ok", fs |-> sd.fs, ret |-> Directory_init])))))

\* lib.rs:219 create_directory
create_directory(fs, dir) ==
    Let(get_directory_index(fs), LAMBDA gdi :
    IF gdi.r # "Ok" THEN [r |-> "Err", fs |-> fs, ret |-> NoDirectory]
    ELSE Let(allocate_inode(fs), LAMBDA ai :
    IF ~ai.some THEN [r |-> "Err", fs |-> ai.fs, ret |-> NoDirectory]
    ELSE Let(create_dir(gdi.di, dir, ai.inode.block_index), LAMBDA cd :
    Let(IF cd.some THEN [r |-> "Ok", fs |-> ai.fs]
        ELSE release_inode(ai.fs, ai.inode.block_index), LAMBDA rel :
    IF rel.r # "Ok" THEN [r |-> rel.r, fs |-> rel.fs, ret |-> NoDirectory]
    ELSE Let(save_directory_index(rel.fs, cd.di), LAMBDA sdi :
    IF sdi.r # "Ok" THEN [r |-> sdi.r, fs |-> sdi.fs, ret |-> NoDirectory]
    ELSE Let(save_directory(sdi.fs, Directory_init, ai.inode.block_index), LAMBDA sd :
    IF sd.r # "Ok" THEN [r |-> sd.r, fs |-> sd.fs, ret |-> NoDirectory]
    ELSE [r |-> "Ok", fs |-> sd.fs, ret |-> Directory_init]))))))

\* lib.rs:287-298, the branch of add_file for a name the directory lacks
AddNewFile(fs, d, dir_inode_index, file_name) ==
    Let(allocate_inode(fs), LAMBDA ai :
    IF ~ai.some THEN [r |-> "Panic", fs |-> ai.fs, inode |-> ai.inode]
    ELSE Let(Directory_add_file(d, file_name, ai.inode.block_index), LAMBDA af :
    IF af.r # "Ok" THEN [r |-> "Err", fs |-> ai.fs, inode |-> ai.inode]
    ELSE Let(save_directory(ai.fs, af.d, dir_inode_index), LAMBDA sd :
    IF sd.r # "Ok" THEN [r |-> sd.r, fs |-> sd.fs, inode |-> ai.inode]
    ELSE [r |-> "Ok",
          fs |-> [sd.fs EXCEPT !.superblock.file_count = Wrap32(@ + 1)],
          inode |-> ai.inode])))

\* lib.rs:272 add_file
add_file(fs, dir, file_name, data, data_len) ==
    Let(find_directory(fs, dir), LAMBDA fd :
    IF fd.r # "Ok" THEN [r |-> "Err", fs |-> fs]
    ELSE Let(get_file(fd.d, file_name), LAMBDA gf :
    Let(IF gf.some
        THEN Let(get_inode(fs, gf.v), LAMBDA gi :
                 [r |-> gi.r, fs |-> fs, inode |-> gi.inode])
        ELSE AddNewFile(fs, fd.d, fd.index, file_name), LAMBDA fi :
    IF fi.r # "Ok" THEN [r |-> fi.r, fs |-> fi.fs]
    ELSE Let(write_inode_data(fi.fs, fi.inode, data, data_len), LAMBDA w :
    IF w.r # "Ok" THEN w
    ELSE [r |-> "Ok", fs |-> save_superblock(w.fs)]))))

\* remove_file that saves the superblock before it reports a missing name
remove_file_saves_on_miss(fs, dir, file_name) ==
    Let(find_directory(fs, dir), LAMBDA fd :
    IF fd.r # "Ok" THEN [r |-> "Err", fs |-> fs]
    ELSE Let(get_file(fd.d, file_name), LAMBDA gf :
    IF ~gf.some THEN [r |-> "Err", fs |-> save_superblock(fs)]
    ELSE Let(get_inode(fs, gf.v), LAMBDA gi :
    IF gi.r # "Ok" THEN [r |-> "Err", fs |-> fs]
    ELSE Let(release_inode(fs, gi.inode.block_index), LAMBDA rel :
    IF rel.r # "Ok" THEN rel
    ELSE Let(Directory_remove_file(fd.d, file_name), LAMBDA rf :
    IF rf.r # "Ok" THEN [r |-> "Err", fs |-> rel.fs]
    ELSE Let(save_directory(rel.fs, rf.d, fd.index), LAMBDA sd :
    IF sd.r # "Ok" THEN sd
    ELSE [r |-> "Ok", fs |-> save_superblock(sd.fs)]))))))

\* lib.rs:309 remove_file
remove_file(fs, dir, file_name) ==
    Let(find_directory(fs, dir), LAMBDA fd :
    IF fd.r # "Ok" THEN [r |-> "Err", fs |-> fs]
    ELSE Let(get_file(fd.d, file_name), LAMBDA gf :
    IF ~gf.some THEN [r |-> "Err", fs |-> fs]
    ELSE Let(get_inode(fs, gf.v), LAMBDA gi :
    IF gi.r # "Ok" THEN [r |-> "Err", fs |-> fs]
    ELSE Let(release_inode(fs, gi.inode.block_index), LAMBDA rel :
    IF rel.r # "Ok" THEN rel
    ELSE Let(Directory_remove_file(fd.d, file_name), LAMBDA rf :
    IF rf.r # "Ok" THEN [r |-> "Err", fs |-> rel.fs]
    ELSE Let(save_directory(rel.fs, rf.d, fd.index), LAMBDA sd :
    IF sd.r # "Ok" THEN sd
    ELSE [r |-> "Ok", fs |-> save_superblock(sd.fs)]))))))

\* lib.rs:343 get_file_data
get_file_data(fs, dir, file_name) ==
    Let(find_directory(fs, dir), LAMBDA fd :
    IF fd.r # "Ok" THEN [r |-> "Err", bytes |-> <<>>]
    ELSE Let(get_file(fd.d, file_name), LAMBDA gf :
    IF ~gf.some THEN [r |-> "Err", bytes |-> <<>>]
    ELSE Let(get_inode(fs, gf.v), LAMBDA gi :
    IF gi.r # "Ok" THEN [r |-> "Err", bytes |-> <<>>]
    ELSE read_inode_data(fs, gi.inode))))

\* lib.rs:252 get_file_info
get_file_info(fs, dir, file_name) ==
    Let(find_directory(fs, dir), LAMBDA fd :
    IF fd.r # "Ok" THEN [r |-> "Err", inode |-> Inode_new(0)]
    ELSE Let(get_file(fd.d, file_name), LAMBDA gf :
    IF ~gf.some THEN [r |-> "Err", inode |-> Inode_new(0)]
    ELSE get_inode(fs, gf.v)))

\* lib.rs:36 init on an empty image file
EmptyDisk == [b \in {} |-> 0]

\* init without force_allocate_at(0): the root inode's bit stays clear
FS_init_root_not_allocated ==
    LET fs0 == [superblock |-> Superblock_new, groups |-> <<>>,
                disk |-> EmptyDisk, file_len |-> 0]
    IN  init_directory_index(add_group(fs0, Group_init)).fs

FS_init ==
    LET fs0 == [superblock |-> Superblock_new, groups |-> <<>>,
                disk |-> EmptyDisk, file_len |-> 0]
        group == force_allocate_at(Group_init, 0)
    IN  init_directory_index(add_group(fs0, group)).fs

\* lib.rs:878 Group::deserialize_from
LoadGroup(fs, group_index) ==
    LET offset == seek_position(group_index)
        blk == BlockNo(offset)
    IN  IF offset + BLOCK_SIZE > fs.file_len THEN [r |-> "Err", group |-> Group_init]
        ELSE IF blk \notin DOMAIN fs.disk THEN [r |-> "Ok", group |-> Group_init]
        ELSE IF fs.disk[blk].k = "bm" THEN [r |-> "Ok", group |-> fs.disk[blk].v]
        ELSE [r |-> "Err", group |-> Group_init]

\* lib.rs:76 new: the superblock and group_count bitmaps are read back
FS_new(fs) ==
    LET sbok == /\ 0 \in DOMAIN fs.disk
                /\ fs.disk[0].k = "sb"
                /\ Superblock_verify_checksum(fs.disk[0].v)
        sb == fs.disk[0].v
        loaded == [g \in 1..sb.group_count |-> LoadGroup(fs, g - 1)]
    IN  IF ~sbok THEN [r |-> "Err", fs |-> fs]
        ELSE IF \E g \in 1..sb.group_count : loaded[g].r # "Ok"
        THEN [r |-> "Err", fs |-> fs]
        ELSE [r |-> "Ok",
              fs |-> [fs EXCEPT !.superblock = sb,
                                !.groups = [g \in 1..sb.group_count |-> loaded[g].group]]]

----------------------------------------------------------------------------
(* The state machine: one image, one process that holds it open.           *)

VARIABLES
    superblock,   \* FS.superblock, in memory
    groups,       \* FS.groups, in memory
    disk,         \* the image file, block number -> what was written there
    file_len,     \* the length of the image file in bytes
    last,         \* the last operation, its arguments and its outcome
    nops,         \* the number of operations performed since init
    probe         \* arguments and results of the functions exercised alone

vars == <<superblock, groups, disk, file_len, last, nops, probe>>

FSrec == [superblock |-> superblock, groups |-> groups,
          disk |-> disk, file_len |-> file_len]

\* the bytes a reader of n bytes yields
Payload(n) == [i \in 1..n |-> (7 * i + 3 * n) % 256]

\* payload lengths offered to add_file with a correct data_len
DataLens == {0, INODE_CAPACITY, INODE_CAPACITY + 1, 2 * BLOCK_SIZE}

\* <<bytes the reader yields, data_len>> offered to add_file
AddInputs ==
    {<<n, n>> : n \in DataLens}
    \cup {<<INODE_CAPACITY - 1, INODE_CAPACITY>>, <<BLOCK_SIZE, BLOCK_SIZE + 1>>}

\* last.existed: the directory (create_directory) or the file (add_file,
\*   remove_file) was there before the call
\* last.was_regions: that file's inode held ranges before the call
\* last.follows_add: the call before was a successful add_file of that file
\* last.reopened: the image has been opened with FS::new since init
\* last.erred: an earlier call of this run returned an error or panicked
NoLast ==
    [op |-> "init", dir |-> 0, name |-> 0, data |-> <<>>, data_len |-> 0,
     r |-> "Ok", files |-> <<>>, existed |-> FALSE, was_regions |-> FALSE,
     follows_add |-> FALSE, reopened |-> FALSE, erred |-> FALSE]

NoProbe == [f |-> "none"]

Commit(fs, l) ==
    /\ superblock' = fs.superblock
    /\ groups' = fs.groups
    /\ disk' = fs.disk
    /\ file_len' = fs.file_len
    /\ last' = [l EXCEPT !.reopened = last.reopened \/ l.op = "new",
                         !.erred = last.erred \/ last.r # "Ok"]
    /\ nops' = nops + 1
    /\ probe' = probe

\* a process that panicked is gone: the image can only be opened again
Running == last.r # "Panic" /\ nops < MaxOps

\* whether dir is in the directory index, name in directory dir
DirExists(fs, dir) ==
    Let(get_directory_index(fs), LAMBDA gdi : gdi.r = "Ok" /\ find_dir(gdi.di, dir).some)

FileExists(fs, dir, name) ==
    Let(find_directory(fs, dir), LAMBDA fd : fd.r = "Ok" /\ get_file(fd.d, name).some)

\* the address directory dir lists for name, 0 when it lists none
FileAddr(fs, dir, name) ==
    Let(find_directory(fs, dir), LAMBDA fd :
    IF fd.r = "Ok" THEN get_file(fd.d, name).v ELSE 0)

FileHasRegions(fs, dir, name) ==
    /\ FileExists(fs, dir, name)
    /\ Let(get_inode(fs, FileAddr(fs, dir, name)), LAMBDA gi :
           /\ gi.r = "Ok"
           /\ gi.inode.data.tag = "DirectPointers"
           /\ gi.inode.data.ptrs # <<>>)

FSInit ==
    /\ superblock = FS_init.superblock
    /\ groups = FS_init.groups
    /\ disk = FS_init.disk
    /\ file_len = FS_init.file_len
    /\ last = NoLast
    /\ nops = 0

Init == FSInit /\ probe = NoProbe

CreateDirectory(dir) ==
    /\ Running
    /\ \E res \in {create_directory(FSrec, dir)} :
           /\ Len(res.fs.groups) <= MaxGroups
           /\ Commit(res.fs,
                     [NoLast EXCEPT !.op = "create_directory", !.dir = dir,
                                    !.r = res.r, !.files = res.ret.files,
                                    !.existed = DirExists(FSrec, dir)])

AddFile(dir, name, in) ==
    /\ Running
    /\ \E res \in {add_file(FSrec, dir, name, Payload(in[1]), in[2])} :
           /\ Len(res.fs.groups) <= MaxGroups
           /\ Commit(res.fs,
                     [NoLast EXCEPT !.op = "add_file", !.dir = dir, !.name = name,
                                    !.data = Payload(in[1]), !.data_len = in[2],
                                    !.r = res.r,
                                    !.existed = FileExists(FSrec, dir, name),
                                    !.was_regions = FileHasRegions(FSrec, dir, name)])

RemoveFile(dir, name) ==
    /\ Running
    /\ \E res \in {remove_file(FSrec, dir, name)} :
           Commit(res.fs,
                  [NoLast EXCEPT !.op = "remove_file", !.dir = dir, !.name = name,
                                 !.r = res.r,
                                 !.existed = FileExists(FSrec, dir, name),
                                 !.was_regions = FileHasRegions(FSrec, dir, name),
                                 !.follows_add = /\ last.op = "add_file"
                                                 /\ last.r = "Ok"
                                                 /\ last.dir = dir
                                                 /\ last.name = name])

\* the process ends (or has panicked) and the image is opened again
Reopen ==
    /\ nops < MaxOps
    /\ last.op # "new"
    /\ \E res \in {FS_new(FSrec)} :
           Commit(res.fs, [NoLast EXCEPT !.op = "new", !.r = res.r])

Next ==
    \/ \E dir \in Dirs : CreateDirectory(dir)
    \/ \E dir \in Dirs, name \in Names, in \in AddInputs : AddFile(dir, name, in)
    \/ \E dir \in Dirs, name \in Names : RemoveFile(dir, name)
    \/ Reopen

Spec == Init /\ [][Next]_vars

----------------------------------------------------------------------------
(* The address functions exercised alone, on every (group, bit) of the     *)
(* first AddrGroups groups (src/bin/demo2.rs).                             *)

\* demo2.rs:21 for group_index in 0..20
AddrGroups == 20

AddrInit ==
    /\ FSInit
    /\ probe \in {[f |-> "test_address", st |-> "in", g |-> g, k |-> k, a |-> 0,
                   t |-> <<0, 0>>] :
                     g \in 0..(AddrGroups - 1), k \in 0..(BLOCKS_PER_GROUP - 1)}

CreateAddress ==
    /\ probe.st = "in"
    /\ probe' = [probe EXCEPT !.st = "addr",
                              !.a = create_public_address(probe.g, probe.k)]
    /\ UNCHANGED <<superblock, groups, disk, file_len, last, nops>>

TranslateAddress ==
    /\ probe.st = "addr"
    /\ probe' = [probe EXCEPT !.st = "done",
                              !.t = translate_public_address(probe.a)]
    /\ UNCHANGED <<superblock, groups, disk, file_len, last, nops>>

AddrNext == CreateAddress \/ TranslateAddress

AddrSpec == AddrInit /\ [][AddrNext]_vars

----------------------------------------------------------------------------
(* What the image holds, as the read path sees it.                         *)

\* path -> directory inode address, from the index stored at address 2
IndexEntries(fs) ==
    Let(get_directory_index(fs), LAMBDA gdi :
    IF gdi.r = "Ok" THEN gdi.di.directories ELSE <<>>)

\* name -> file inode address of directory dir
DirFiles(fs, dir) ==
    Let(find_directory(fs, dir), LAMBDA fd : IF fd.r = "Ok" THEN fd.d.files ELSE <<>>)

DirAddrs(fs) == MapValues(IndexEntries(fs))

FileAddrs(fs) == UNION {MapValues(DirFiles(fs, dir)) : dir \in MapKeys(IndexEntries(fs))}

\* the live inode addresses: the root index, the directories, the files
LiveInodeAddrs(fs) == {ROOT_INODE_INDEX} \cup DirAddrs(fs) \cup FileAddrs(fs)

\* the ranges of the inode stored at address a (none for inline data)
RangesAt(fs, a) ==
    Let(get_inode(fs, a), LAMBDA gi :
    IF gi.r = "Ok" /\ gi.inode.data.tag = "DirectPointers"
    THEN gi.inode.data.ptrs ELSE <<>>)

RangeSet(range) == {range[1] + j : j \in 0..(range[2] - 1)}

RangesBlocks(ranges) == UNION {RangeSet(ranges[i]) : i \in 1..Len(ranges)}

\* the bit of address a is set in the in-memory bitmap of its group
BitIsSet(grps, a) ==
    LET t == translate_public_address(a)
    IN  /\ t[1] < Len(grps)
        /\ t[2] < Len(grps[t[1] + 1])
        /\ grps[t[1] + 1][t[2] + 1]

BitIsClear(grps, a) ==
    LET t == translate_public_address(a)
    IN  /\ t[1] < Len(grps)
        /\ t[2] < Len(grps[t[1] + 1])
        /\ ~grps[t[1] + 1][t[2] + 1]

\* the bitmap stored on disk for group g (0-based), <<>> when there is none
DiskBitmap(g) ==
    LET blk == BlockNo(seek_position(g))
    IN  IF blk \in DOMAIN disk /\ disk[blk].k = "bm" THEN disk[blk].v ELSE <<>>

Mutations == {"init", "create_directory", "add_file", "remove_file"}

\* a public mutation has just returned (with a value or an error)
MutationReturned == last.op \in Mutations /\ last.r # "Panic"

MutationReturnedOk == last.op \in Mutations /\ last.r = "Ok"

\* the facade and the image after the step
FSrecNext == [superblock |-> superblock', groups |-> groups',
              disk |-> disk', file_len |-> file_len']

\* the superblock stored at offset 0
DiskSuperblock == IF 0 \in DOMAIN disk /\ disk[0].k = "sb" THEN disk[0].v ELSE <<>>

FreeBits(grps) == SumSeq([g \in 1..Len(grps) |-> count_zeros(grps[g])])

SetBits(grps) == [g \in 1..Len(grps) |-> count_ones(grps[g])]

TotalBits(grps) == SumSeq([g \in 1..Len(grps) |-> Len(grps[g])])

\* the number of file entries over all directories of the index
FileEntries(fs) ==
    Let(IndexEntries(fs), LAMBDA ds :
    SumSeq([i \in 1..Len(ds) |-> Len(DirFiles(fs, ds[i][1]))]))

\* the counters of superblock record sb agree with the groups in memory
CountersAgree(sb) ==
    /\ sb.free_blocks = FreeBits(groups)
    /\ sb.block_count = TotalBits(groups)
    /\ sb.group_count = Len(groups)

\* <<inode address, range number>> of every range a live inode holds
LiveRanges(fs) ==
    UNION {{<<a, i>> : i \in 1..Len(RangesAt(fs, a))} : a \in LiveInodeAddrs(fs)}

RangeOf(fs, ar) == RangeSet(RangesAt(fs, ar[1])[ar[2]])

----------------------------------------------------------------------------
(* The properties.                                                        *)

\* C1: after add_file(d, n, p, len(p)) succeeds in a session that never
\* reopened the image, get_file_data(d, n) yields exactly the bytes of p.
C1_RoundTrip ==
    (/\ last.op = "add_file"
     /\ last.r = "Ok"
     /\ last.data_len = Len(last.data)
     /\ ~last.reopened)
    => get_file_data(FSrec, last.dir, last.name) = [r |-> "Ok", bytes |-> last.data]

\* C2: in every state where the facade is alive, the bit of every live inode
\* address (root index, directories, files) is set in the in-memory bitmaps.
C2_InodeBitsSet ==
    last.r # "Panic" => \A a \in LiveInodeAddrs(FSrec) : BitIsSet(groups, a)

\* C3: when a public mutation has returned, the bitmap block on disk of
\* every group equals the group's bitmap in memory.
C3_BitmapsPersisted ==
    MutationReturned => \A g \in 1..Len(groups) : DiskBitmap(g - 1) = groups[g]

\* C4: when a public mutation has returned, the counters of the superblock
\* in memory and of the superblock stored at offset 0 agree with the groups.
C4_SuperblockCounters ==
    MutationReturned
    => /\ CountersAgree(superblock)
       /\ DiskSuperblock # <<>>
       /\ CountersAgree(DiskSuperblock)

\* C5: translate_public_address(create_public_address(g, k)) = (g, k) for
\* every group index g below AddrGroups and every bitmap index k.
C5_AddressRoundTrip ==
    (probe.f = "test_address" /\ probe.st = "done") => probe.t = <<probe.g, probe.k>>

\* the last (group, bit) of the domain has made the round trip
C5_Witness ==
    /\ probe.f = "test_address"
    /\ probe.st = "done"
    /\ probe.g = AddrGroups - 1
    /\ probe.k = BLOCKS_PER_GROUP - 1
    /\ probe.a = create_public_address(AddrGroups - 1, BLOCKS_PER_GROUP - 1)

\* C6: when add_file or remove_file has returned a value, file_count is the
\* number of file entries over all directories.
C6_FileCount ==
    (last.op \in {"add_file", "remove_file"} /\ last.r = "Ok")
    => superblock.file_count = FileEntries(FSrec)

\* C7: create_directory of a path already in the index returns the files the
\* directory already lists or an error, and leaves every bitmap's number of
\* set bits as it was.
C7_DuplicateDirectory ==
    [][(last'.op = "create_directory" /\ last'.existed)
       => /\ \/ last'.r = "Err"
             \/ last'.r = "Ok" /\ last'.files = DirFiles(FSrec, last'.dir)
          /\ SetBits(groups') = SetBits(groups)]_vars

\* C8: in every state where the facade is alive, every bit of every range
\* of a live inode is set, and no block is in two ranges or both in a range
\* and a live inode address.
C8_RegionBits ==
    last.r # "Panic"
    => /\ \A ar \in LiveRanges(FSrec) : \A x \in RangeOf(FSrec, ar) : BitIsSet(groups, x)
       /\ \A ar1, ar2 \in LiveRanges(FSrec) :
              ar1 # ar2 => RangeOf(FSrec, ar1) \cap RangeOf(FSrec, ar2) = {}
       /\ \A ar \in LiveRanges(FSrec) : RangeOf(FSrec, ar) \cap LiveInodeAddrs(FSrec) = {}

C10_OverwriteReleases ==
    [][(/\ last'.op = "add_file"
        /\ last'.r = "Ok"
        /\ ~last'.erred
        /\ ~last'.reopened
        /\ last'.existed
        /\ last'.was_regions
        /\ last'.data_len <= INODE_CAPACITY)
       => LET a == FileAddr(FSrec, last'.dir, last'.name)
              released == RangesBlocks(RangesAt(FSrec, a))
          IN  /\ FileAddr(FSrecNext, last'.dir, last'.name) = a
              /\ get_inode(FSrecNext, a).r = "Ok"
              /\ get_inode(FSrecNext, a).inode.data.tag = "Raw"
              /\ \A x \in released : BitIsClear(groups', x)
              /\ superblock'.free_blocks
                     = superblock.free_blocks + Cardinality(released)]_vars

\* the number of set bits over all bitmaps
SetBitCount(grps) == SumSeq(SetBits(grps))

\* the listing of directory dir is stored inline in the directory's inode
DirInline(fs, dir) ==
    Let(find_directory(fs, dir), LAMBDA fd :
    /\ fd.r = "Ok"
    /\ get_inode(fs, fd.index).inode.data.tag = "Raw")

\* the bits a new file of n bytes takes: its inode, and ceil(n / B) data
\* blocks when n does not fit the inode
FileBits(n) ==
    IF n <= INODE_CAPACITY THEN 1 ELSE 1 + ((n + BLOCK_SIZE - 1) \div BLOCK_SIZE)

\* C11 as stated: a successful add_file of a new name of n bytes sets
\* exactly 1 new bit when n <= INODE_CAPACITY and 1 + ceil(n / B) otherwise.
C11_ExactConsumption ==
    [][(last'.op = "add_file" /\ last'.r = "Ok" /\ ~last'.existed)
       => SetBitCount(groups') = SetBitCount(groups) + FileBits(last'.data_len)]_vars

\* C11 amended: the count is exact when the listing of the directory is
\* stored inline before and after the call (a listing that outgrows the
\* inode takes data blocks of its own).
C11_ExactConsumptionInlineDir ==
    [][(/\ last'.op = "add_file"
        /\ last'.r = "Ok"
        /\ ~last'.existed
        /\ DirInline(FSrec, last'.dir)
        /\ DirInline(FSrecNext, last'.dir))
       => SetBitCount(groups') = SetBitCount(groups) + FileBits(last'.data_len)]_vars

\* a new file that does not fit its inode has been added to a directory
\* whose listing is inline
C11_Witness ==
    /\ last.op = "add_file"
    /\ last.r = "Ok"
    /\ ~last.existed
    /\ last.data_len > INODE_CAPACITY
    /\ DirInline(FSrec, last.dir)

(***************************************************************************)
(* A second workload over the same operations: one directory, three file   *)
(* names, payloads of one and of three blocks.  It reaches images whose    *)
(* free blocks are scattered over several groups.                          *)
(***************************************************************************)
FragNames == {1, 2, 3}

FragLens == {BLOCK_SIZE, 3 * BLOCK_SIZE}

FragNext ==
    \/ CreateDirectory(1)
    \/ \E name \in FragNames, n \in FragLens : AddFile(1, name, <<n, n>>)
    \/ \E name \in FragNames : RemoveFile(1, name)
    \/ Reopen

FragSpec == Init /\ [][FragNext]_vars

\* C12: every live inode with Regions data references at most
\* INODE_MAX_REGION ranges, also when one write is served by several groups.
C12_RegionBudget ==
    \A a \in LiveInodeAddrs(FSrec) : Len(RangesAt(FSrec, a)) <= INODE_MAX_REGION

\* the blocks covered by the ranges of the inode the directory lists for name
FileBlocks(fs, dir, name) ==
    Cardinality(RangesBlocks(RangesAt(fs, FileAddr(fs, dir, name))))

\* the file's inode was left with ranges covering fewer blocks than n bytes need
ShortAllocation(fs, dir, name, n) ==
    /\ FileExists(fs, dir, name)
    /\ FileBlocks(fs, dir, name) < blocks_to_allocate(n)

\* C13: an add_file of more than INODE_CAPACITY bytes that leaves the file's
\* inode with ranges covering fewer blocks than the payload needs returns an
\* error: it neither aborts nor reports success.  Only calls whose reader
\* yields exactly data_len bytes are considered.
C13_FragmentationIsError ==
    [][(/\ last'.op = "add_file"
        /\ last'.data_len > INODE_CAPACITY
        /\ Len(last'.data) = last'.data_len
        /\ ShortAllocation(FSrecNext, last'.dir, last'.name, last'.data_len))
       => last'.r = "Err"]_vars

\* C14: an add_file of a new name to an existing directory that returns an
\* error leaves the bitmaps, file_count and the directory's listing as they
\* were before the call.
C14_FailedAddCompensated ==
    [][(/\ last'.op = "add_file"
        /\ last'.r = "Err"
        /\ ~last'.existed
        /\ DirExists(FSrec, last'.dir))
       => /\ groups' = groups
          /\ superblock'.file_count = superblock.file_count
          /\ DirFiles(FSrecNext, last'.dir) = DirFiles(FSrec, last'.dir)]_vars

\* directory dir reads back as a Directory record whose checksum verifies
DirectoryVerifies(fs, dir) ==
    Let(find_directory(fs, dir), LAMBDA fd :
    fd.r = "Ok" /\ Directory_verify_checksum(fd.d))

\* C15: while every call so far has succeeded, every directory listed in the
\* directory index is stored as a Directory record whose checksum field is
\* the checksum of its current contents.
C15_DirectoryChecksums ==
    (last.r = "Ok" /\ ~last.erred)
        => \A dir \in MapKeys(IndexEntries(FSrec)) : DirectoryVerifies(FSrec, dir)

----------------------------------------------------------------------------
(***************************************************************************)
(* Group::allocate_region on its own: every bitmap of one group, every     *)
(* number of wanted blocks and every region budget.                        *)
(***************************************************************************)
Bitmaps == [1..BLOCKS_PER_GROUP -> BOOLEAN]

RegionInit ==
    /\ FSInit
    /\ probe \in {[f |-> "allocate_region", st |-> "in", bitmap |-> b, g |-> g,
                   want |-> n, max |-> m, out |-> b, regions |-> <<>>, left |-> n] :
                     b \in Bitmaps, g \in 0..(MaxGroups - 1),
                     n \in 0..(BLOCKS_PER_GROUP + 1),
                     m \in 0..(INODE_MAX_REGION + 1)}

AllocateRegion ==
    /\ probe.st = "in"
    /\ \E res \in {allocate_region(probe.bitmap, probe.g, probe.want, probe.max)} :
           probe' = [probe EXCEPT !.st = "out", !.out = res.bitmap,
                                  !.regions = res.regions, !.left = res.left]
    /\ UNCHANGED <<superblock, groups, disk, file_len, last, nops>>

RegionNext == AllocateRegion

RegionSpec == RegionInit /\ [][RegionNext]_vars

\* the lengths of the ranges
RangeLengths(ranges) == [i \in 1..Len(ranges) |-> ranges[i][2]]

\* the public addresses of the bits of group g
GroupAddrs(g) == {create_public_address(g, k) : k \in 0..(BLOCKS_PER_GROUP - 1)}

\* C16: the ranges allocate_region returns have lengths summing to
\* want - remaining, lie in the group, cover only bits that were clear before
\* and are set after, do not overlap, and no other bit of the bitmap changes.
C16_RegionExactDisjoint ==
    (probe.f = "allocate_region" /\ probe.st = "out")
        => /\ SumSeq(RangeLengths(probe.regions)) = probe.want - probe.left
           /\ probe.left >= 0
           /\ RangesBlocks(probe.regions) \subseteq GroupAddrs(probe.g)
           /\ \A k \in 0..(BLOCKS_PER_GROUP - 1) :
                  IF create_public_address(probe.g, k) \in RangesBlocks(probe.regions)
                  THEN ~probe.bitmap[k + 1] /\ probe.out[k + 1]
                  ELSE probe.out[k + 1] = probe.bitmap[k + 1]
           /\ \A i, j \in 1..Len(probe.regions) :
                  i # j => RangeSet(probe.regions[i]) \cap RangeSet(probe.regions[j]) = {}

\* a scattered bitmap: several ranges were returned, the last one ending at
\* the last bit, and blocks are still wanted
C16_Witness ==
    /\ probe.f = "allocate_region" /\ probe.st = "out"
    /\ Len(probe.regions) >= 2
    /\ probe.left > 0
    /\ ~probe.bitmap[BLOCKS_PER_GROUP]

----------------------------------------------------------------------------
(***************************************************************************)
(* One Group under any sequence of its allocation and release methods.     *)
(* probe.handed are the public addresses handed out and not yet released,  *)
(* probe.count is their count kept by addition and subtraction.            *)
(***************************************************************************)
GroupInit ==
    /\ FSInit
    /\ probe \in {[f |-> "group", op |-> "init", g |-> g, bitmap |-> Group_init,
                   handed |-> {}, count |-> 0] : g \in 0..(MaxGroups - 1)}

GroupUnchanged == UNCHANGED <<superblock, groups, disk, file_len, last, nops>>

GroupAllocateOne ==
    /\ probe.f = "group"
    /\ \E res \in {allocate_one(probe.bitmap, probe.g)} :
           probe' = [probe EXCEPT
                        !.op = "allocate_one",
                        !.bitmap = res.bitmap,
                        !.handed = IF res.some THEN @ \cup {res.addr} ELSE @,
                        !.count = IF res.some THEN @ + 1 ELSE @]
    /\ GroupUnchanged

GroupAllocateRegion(want, max) ==
    /\ probe.f = "group"
    /\ \E res \in {allocate_region(probe.bitmap, probe.g, want, max)} :
           probe' = [probe EXCEPT
                        !.op = "allocate_region",
                        !.bitmap = res.bitmap,
                        !.handed = @ \cup RangesBlocks(res.regions),
                        !.count = @ + SumSeq(RangeLengths(res.regions))]
    /\ GroupUnchanged

GroupReleaseOne(k) ==
    /\ probe.f = "group"
    /\ InBitmap(probe.bitmap, k)
    /\ probe' = [probe EXCEPT
                    !.op = "release_one",
                    !.bitmap = release_one(@, k),
                    !.handed = @ \ {create_public_address(probe.g, k)},
                    !.count = @ - Cardinality(probe.handed
                                              \cap {create_public_address(probe.g, k)})]
    /\ GroupUnchanged

GroupReleaseRegion(k, length) ==
    /\ probe.f = "group"
    /\ InBitmap(probe.bitmap, k)
    /\ InBitmap(probe.bitmap, k + length - 1)
    /\ LET released == {create_public_address(probe.g, j) : j \in k..(k + length - 1)}
       IN  probe' = [probe EXCEPT
                        !.op = "release_data_region",
                        !.bitmap = release_data_region(@, k, length),
                        !.handed = @ \ released,
                        !.count = @ - Cardinality(probe.handed \cap released)]
    /\ GroupUnchanged

GroupNext ==
    \/ GroupAllocateOne
    \/ \E want \in 1..BLOCKS_PER_GROUP, max \in 1..INODE_MAX_REGION :
           GroupAllocateRegion(want, max)
    \/ \E k \in 0..(BLOCKS_PER_GROUP - 1) : GroupReleaseOne(k)
    \/ \E k \in 0..(BLOCKS_PER_GROUP - 1), length \in 1..BLOCKS_PER_GROUP :
           GroupReleaseRegion(k, length)

GroupSpec == GroupInit /\ [][GroupNext]_vars

\* C17: after any sequence of allocate_one, allocate_region, release_one and
\* release_data_region on one group, the clear bits plus the blocks handed
\* out and not yet released are BLOCKS_PER_GROUP.
C17_AllocatorAccounting ==
    probe.f = "group"
        => /\ count_zeros(probe.bitmap) + probe.count = BLOCKS_PER_GROUP
           /\ probe.count = Cardinality(probe.handed)

\* a region was released out of the middle of the handed-out blocks
C17_Witness ==
    /\ probe.f = "group"
    /\ probe.op = "release_data_region"
    /\ probe.bitmap[1] /\ ~probe.bitmap[2] /\ ~probe.bitmap[3] /\ probe.bitmap[4]
    /\ probe.count >= 2

----------------------------------------------------------------------------
(***************************************************************************)
(* The growth of the image: FS::add_group taken one call at a time, as the *)
(* loop of write_inode_data (lib.rs:555-558) calls it while free_blocks is *)
(* below the blocks a large data_len needs.                                *)
(***************************************************************************)
GrowLimit == 30

AddGroup ==
    /\ last.r = "Ok"
    /\ Len(groups) < GrowLimit
    /\ \E fs \in {add_group(FSrec, Group_init)} :
           /\ superblock' = fs.superblock
           /\ groups' = fs.groups
           /\ disk' = fs.disk
           /\ file_len' = fs.file_len
           /\ last' = [NoLast EXCEPT !.op = "add_group",
                                     !.reopened = last.reopened,
                                     !.erred = last.erred]
           /\ UNCHANGED <<nops, probe>>

GrowNext ==
    \/ AddGroup
    \/ \E dir \in Dirs : CreateDirectory(dir)
    \/ Reopen

GrowSpec == Init /\ [][GrowNext]_vars

\* the length truncate-to-fit gives an image of n groups
ImageLength(n) == BLOCK_SIZE + n * (BLOCK_SIZE + BLOCKS_PER_GROUP * BLOCK_SIZE)

\* C18: no step makes the image file shorter or the list of groups shorter,
\* and a step that appends a group leaves the file at B + groups * (B + G*B).
C18_ImageMonotonic ==
    [][/\ file_len' >= file_len
       /\ Len(groups') >= Len(groups)
       /\ Len(groups') > Len(groups) => file_len' = ImageLength(Len(groups'))]_vars

\* the image as FS::init leaves it, seen through the facade fs
FreshImage(fs) ==
    /\ fs.superblock.group_count = 1
    /\ fs.superblock.file_count = 0
    /\ fs.superblock.free_blocks = BLOCKS_PER_GROUP - 1
    /\ Len(fs.groups) = 1
    /\ \A k \in 0..(BLOCKS_PER_GROUP - 1) : fs.groups[1][k + 1] <=> (k = 0)
    /\ create_public_address(0, 0) = ROOT_INODE_INDEX
    /\ Let(get_directory_index(fs), LAMBDA gdi :
           /\ gdi.r = "Ok"
           /\ gdi.di.directories = <<>>
           /\ DirectoryIndex_verify_checksum(gdi.di))

\* C19: right after init, and after init followed by a reopen with FS::new,
\* group_count is 1, file_count 0, free_blocks G - 1, the only set bit is bit 0
\* of group 0 (address 2), and the directory index read from address 2 is
\* empty with a verifying checksum.
C19_InitState ==
    (nops = 0 \/ (nops = 1 /\ last.op = "new"))
        => last.r = "Ok" /\ FreshImage(FSrec)

C19_Witness == nops = 1 /\ last.op = "new" /\ last.r = "Ok" /\ FreshImage(FSrec)

\* the inode records stored in the image
StoredInodes(fs) == {fs.disk[b].v : b \in {x \in DOMAIN fs.disk : fs.disk[x].k = "ino"}}

\* the inode the directory lists for name
FileInode(fs, dir, name) == get_inode(fs, FileAddr(fs, dir, name))

\* the address of the inode add_file(dir, name, ..) hands to write_inode_data:
\* the one the directory lists, or the one allocate_inode returns
WrittenAddr(fs, dir, name) ==
    IF FileExists(fs, dir, name)
    THEN FileAddr(fs, dir, name)
    ELSE allocate_inode(fs).inode.block_index

\* every stored inode with an inline body holds at most INODE_CAPACITY bytes
\* and has the length of that body in its size field
InlineBounded(fs) ==
    \A inode \in StoredInodes(fs) :
        inode.data.tag = "Raw"
            => /\ Len(inode.data.bytes) <= INODE_CAPACITY
               /\ inode.size = Len(inode.data.bytes)

\* C20: the inode a successful add_file wrote holds the payload inline
\* exactly when data_len <= INODE_CAPACITY, in ranges otherwise, and has
\* data_len in its size field; in every state every stored inode with an
\* inline body holds at most INODE_CAPACITY bytes and its size field is the
\* length of that body.  The inode is judged where its block still holds an
\* inode: after a reopen the write may allocate the inode's own block for the
\* payload, which C3 is about.
C20_InlineSelection ==
    /\ InlineBounded(FSrec)
    /\ [][/\ InlineBounded(FSrecNext)
          /\ (last'.op = "add_file" /\ last'.r = "Ok")
                 => Let(get_inode(FSrecNext, WrittenAddr(FSrec, last'.dir, last'.name)),
                        LAMBDA gi :
                        gi.r = "Ok"
                            => /\ gi.inode.size = last'.data_len
                               /\ gi.inode.data.tag = "Raw"
                                      <=> last'.data_len <= INODE_CAPACITY)]_vars

\* a file stored in regions was overwritten with exactly INODE_CAPACITY bytes
C20_Witness ==
    /\ last.op = "add_file" /\ last.r = "Ok"
    /\ last.was_regions
    /\ last.data_len = INODE_CAPACITY
    /\ FileInode(FSrec, last.dir, last.name).inode.data.tag = "Raw"

----------------------------------------------------------------------------
(***************************************************************************)
(* The keystream functions of util.rs on their own: a table is built from  *)
(* a secret and a buffer is encrypted with it twice.                       *)
(***************************************************************************)
EncBytes == {0, 5, 255}

\* non-empty secrets of up to three bytes
EncSecrets == UNION {[1..n -> EncBytes] : n \in 1..3}

\* buffers shorter than, as long as and longer than the table
EncBuffers ==
    UNION {[1..n -> EncBytes] : n \in 0..2}
        \cup {Payload(n) : n \in (BLOCK_SIZE - 1)..(BLOCK_SIZE + 2)}

EncInit ==
    /\ FSInit
    /\ probe \in {[f |-> "encrypt", st |-> "in", s |-> s, b |-> b, table |-> <<>>,
                   once |-> <<>>, twice |-> <<>>] :
                     s \in EncSecrets, b \in EncBuffers}

EncUnchanged == UNCHANGED <<superblock, groups, disk, file_len, last, nops>>

CreateLookupTable ==
    /\ probe.f = "encrypt" /\ probe.st = "in"
    /\ probe' = [probe EXCEPT !.st = "table",
                              !.table = create_lookup_table(probe.s, BLOCK_SIZE)]
    /\ EncUnchanged

EncryptOnce ==
    /\ probe.f = "encrypt" /\ probe.st = "table"
    /\ probe' = [probe EXCEPT !.st = "once", !.once = encrypt(probe.b, probe.table)]
    /\ EncUnchanged

EncryptTwice ==
    /\ probe.f = "encrypt" /\ probe.st = "once"
    /\ probe' = [probe EXCEPT !.st = "twice",
                              !.twice = encrypt(probe.once, probe.table)]
    /\ EncUnchanged

EncNext == CreateLookupTable \/ EncryptOnce \/ EncryptTwice

EncSpec == EncInit /\ [][EncNext]_vars

\* C21: encrypting a buffer twice with the table built from a non-empty
\* secret s gives the buffer back, and the table has BLOCK_SIZE bytes, byte i
\* being s[i & (len(s) - 1)].
C21_KeystreamInvolution ==
    /\ (probe.f = "encrypt" /\ probe.st = "twice") => probe.twice = probe.b
    /\ (probe.f = "encrypt" /\ probe.st # "in")
           => /\ Len(probe.table) = BLOCK_SIZE
              /\ \A i \in 0..(BLOCK_SIZE - 1) :
                     probe.table[i + 1] = probe.s[BitAnd(i, Len(probe.s) - 1) + 1]

\* a buffer longer than the table, changed by the first pass, restored by the
\* second, under a secret whose length is not a power of two
C21_Witness ==
    /\ probe.f = "encrypt" /\ probe.st = "twice"
    /\ Len(probe.b) > BLOCK_SIZE
    /\ Len(probe.s) = 3
    /\ probe.once # probe.b
    /\ probe.twice = probe.b

\* the summed lengths of the ranges of the inode the directory lists for name
FileRangeSum(fs, dir, name) ==
    SumSeq(RangeLengths(RangesAt(fs, FileAddr(fs, dir, name))))

\* C22: an add_file of more than INODE_CAPACITY bytes that got as far as the
\* write of the file's inode (the directory lists the name afterwards) does
\* not abort on assert!(data_left == 0), and the ranges it allocated sum to
\* exactly ceil(data_len / B) blocks.  Only sessions that were never
\* reopened and readers that yield exactly data_len bytes are considered.
C22_FullyAllocated ==
    [][(/\ last'.op = "add_file"
        /\ last'.data_len > INODE_CAPACITY
        /\ Len(last'.data) = last'.data_len
        /\ ~last'.reopened
        /\ FileExists(FSrecNext, last'.dir, last'.name))
       => /\ last'.r # "Panic"
          /\ FileRangeSum(FSrecNext, last'.dir, last'.name)
                 = blocks_to_allocate(last'.data_len)]_vars

\* every bit of every in-memory bitmap is set
AllFull(grps) == \A g \in 1..Len(grps) : ~HasZero(grps[g])

\* C23: when every bit of every group is set, create_directory of a new
\* directory and add_file of a new name to an existing directory succeed and
\* append a group for the new inode.
C23_InodeAllocationGrows ==
    [][(/\ AllFull(groups)
        /\ ~last'.existed
        /\ \/ last'.op = "create_directory"
           \/ last'.op = "add_file" /\ DirExists(FSrec, last'.dir))
       => /\ last'.r = "Ok"
          /\ Len(groups') > Len(groups)]_vars

\* the public addresses covered by the ranges of the live inodes
LiveRangeBlocks(fs) ==
    UNION {RangesBlocks(RangesAt(fs, a)) : a \in LiveInodeAddrs(fs)}

\* C24: in every state bit 0 of group 0 is set in memory and in the stored
\* bitmap, address 2 is neither the inode of a directory or file nor inside a
\* range of a live inode, and, unless the last call aborted half-way, the
\* inode at address 2 reads back as the directory index.
C24_RootNeverReused ==
    /\ groups[1][1]
    /\ DiskBitmap(0)[1]
    /\ ROOT_INODE_INDEX \notin DirAddrs(FSrec) \cup FileAddrs(FSrec)
    /\ ROOT_INODE_INDEX \notin LiveRangeBlocks(FSrec)
    /\ last.r # "Panic" => get_directory_index(FSrec).r = "Ok"

\* the inode addresses of all files, one entry per (directory, name)
FileAddrList(fs) ==
    UNION {{<<dir, name>> : name \in MapKeys(DirFiles(fs, dir))} :
              dir \in MapKeys(IndexEntries(fs))}

\* C25: the root index address, the addresses of the directories in the index
\* and the addresses of the files of all directories are pairwise distinct.
C25_DistinctInodeAddresses ==
    /\ ROOT_INODE_INDEX \notin DirAddrs(FSrec) \cup FileAddrs(FSrec)
    /\ DirAddrs(FSrec) \cap FileAddrs(FSrec) = {}
    /\ Cardinality(DirAddrs(FSrec)) = Cardinality(MapKeys(IndexEntries(FSrec)))
    /\ Cardinality(FileAddrs(FSrec)) = Cardinality(FileAddrList(FSrec))

\* get_file_data and get_file_info, which change nothing, report every miss
ReadMissesFail ==
    \A dir \in Dirs, name \in Names :
        ~FileExists(FSrec, dir, name)
            => /\ get_file_data(FSrec, dir, name).r = "Err"
               /\ get_file_info(FSrec, dir, name).r = "Err"

\* the call that led to this step missed: the directory is not in the index,
\* or (remove_file) the directory does not list the name
WriteMissed ==
    \/ /\ last'.op \in {"add_file", "remove_file"}
       /\ ~DirExists(FSrec, last'.dir)
    \/ /\ last'.op = "remove_file"
       /\ ~FileExists(FSrec, last'.dir, last'.name)

\* C26: remove_file and add_file with a directory that is not in the index,
\* and remove_file with a name the directory does not list, return an error
\* and leave bitmaps, superblock and image as they were; get_file_data and
\* get_file_info return an error for every directory or name that is missing.
C26_MissesWithoutEffect ==
    /\ []ReadMissesFail
    /\ [][WriteMissed => (last'.r = "Err" /\ FSrecNext = FSrec)]_vars

\* remove_file of a name that an existing directory does not list, on an
\* image whose superblock counters are stale
C26_Witness ==
    /\ last.op = "remove_file" /\ last.r = "Err"
    /\ DirExists(FSrec, last.dir)
    /\ ~FileExists(FSrec, last.dir, last.name)
    /\ superblock.free_blocks # FreeBits(groups)

----------------------------------------------------------------------------
(***************************************************************************)
(* Single allocation on its own: Group::allocate_one on every bitmap, and  *)
(* FS::allocate_inode on every image of two groups (bit 0 of group 0, the  *)
(* root inode, is always set).                                             *)
(***************************************************************************)
\* the image after init and one group append, with the two bitmaps b1, b2
TwoGroups(b1, b2) == [add_group(FS_init, Group_init) EXCEPT !.groups = <<b1, b2>>]

FirstFitInit ==
    /\ FSInit
    /\ probe \in
         {[f |-> "allocate_one", st |-> "in", g |-> g, grps |-> <<b>>,
           some |-> FALSE, addr |-> 0, out |-> <<b>>] :
              g \in 0..(MaxGroups - 1), b \in Bitmaps}
         \cup
         {[f |-> "allocate_inode", st |-> "in", g |-> 0, grps |-> <<b1, b2>>,
           some |-> FALSE, addr |-> 0, out |-> <<b1, b2>>] :
              b1 \in {b \in Bitmaps : b[1]}, b2 \in Bitmaps}

AllocateOne ==
    /\ probe.f = "allocate_one" /\ probe.st = "in"
    /\ \E res \in {allocate_one(probe.grps[1], probe.g)} :
           probe' = [probe EXCEPT !.st = "out", !.some = res.some,
                                  !.addr = res.addr, !.out = <<res.bitmap>>]
    /\ UNCHANGED <<superblock, groups, disk, file_len, last, nops>>

AllocateInode ==
    /\ probe.f = "allocate_inode" /\ probe.st = "in"
    /\ \E res \in {allocate_inode(TwoGroups(probe.grps[1], probe.grps[2]))} :
           probe' = [probe EXCEPT !.st = "out", !.some = res.some,
                                  !.addr = res.inode.block_index,
                                  !.out = res.fs.groups]
    /\ UNCHANGED <<superblock, groups, disk, file_len, last, nops>>

FirstFitNext == AllocateOne \/ AllocateInode

FirstFitSpec == FirstFitInit /\ [][FirstFitNext]_vars

\* k is the lowest clear bit of bitmap
LowestClear(bitmap, k) ==
    /\ k \in 0..(Len(bitmap) - 1)
    /\ ~bitmap[k + 1]
    /\ \A j \in 0..(k - 1) : bitmap[j + 1]

\* bit k of group g was handed out as probe.addr and nothing else changed
HandedOut(g, k) ==
    /\ probe.some
    /\ probe.addr = create_public_address(g, k)
    /\ probe.out = [probe.grps EXCEPT ![g - probe.g + 1][k + 1] = TRUE]

\* C27: allocate_one sets and returns the address of the lowest clear bit of
\* the group and returns none, changing nothing, when the group is full;
\* allocate_inode returns the lowest clear bit of the lowest-index group that
\* has one.
C27_FirstFitSingle ==
    (probe.f \in {"allocate_one", "allocate_inode"} /\ probe.st = "out")
        => IF \E i \in 1..Len(probe.grps) : HasZero(probe.grps[i])
           THEN \E i \in 1..Len(probe.grps), k \in 0..(BLOCKS_PER_GROUP - 1) :
                    /\ \A h \in 1..(i - 1) : ~HasZero(probe.grps[h])
                    /\ LowestClear(probe.grps[i], k)
                    /\ HandedOut(probe.g + i - 1, k)
           ELSE ~probe.some /\ probe.out = probe.grps

\* allocate_inode passed over a full group 0 and took a bit of group 1 that
\* is neither its first nor its last
C27_Witness ==
    /\ probe.f = "allocate_inode" /\ probe.st = "out"
    /\ ~HasZero(probe.grps[1])
    /\ probe.some
    /\ probe.addr = create_public_address(1, 2)
    /\ ~probe.grps[2][BLOCKS_PER_GROUP]

\* the bits of group probe.g that the returned ranges cover
ClaimedBits == {k \in 0..(BLOCKS_PER_GROUP - 1) :
                   create_public_address(probe.g, k) \in RangesBlocks(probe.regions)}

\* C28: allocate_region returns ranges with strictly increasing start
\* addresses, at most max_regions of them, and every bit that was clear and
\* lies below the highest claimed bit is claimed.  The budget is at least one
\* region, as in every call the program makes (INODE_MAX_REGION); the scan
\* compares the number of closed regions with the budget only after closing
\* one, so a budget of 0 would never stop it.
C28_FirstFitRegion ==
    (probe.f = "allocate_region" /\ probe.st = "out" /\ probe.max >= 1)
        => /\ \A i \in 1..(Len(probe.regions) - 1) :
                  probe.regions[i][1] < probe.regions[i + 1][1]
           /\ Len(probe.regions) <= probe.max
           /\ \A k \in ClaimedBits :
                  \A j \in 0..(k - 1) : ~probe.bitmap[j + 1] => j \in ClaimedBits

\* the budget stopped the scan: max_regions ranges were returned, blocks are
\* still wanted and a clear bit above the last range was left alone
C28_Witness ==
    /\ probe.f = "allocate_region" /\ probe.st = "out"
    /\ probe.max = INODE_MAX_REGION
    /\ Len(probe.regions) = probe.max
    /\ probe.left > 0
    /\ ~probe.out[BLOCKS_PER_GROUP]

----------------------------------------------------------------------------
(***************************************************************************)
(* Where a block lands in the image file: create_public_address and        *)
(* block_seek_position on every (group, bit) of the groups an image can    *)
(* grow to under GrowSpec.                                                 *)
(***************************************************************************)
PlaceInit ==
    /\ FSInit
    /\ probe \in {[f |-> "placement", st |-> "in", g |-> g, k |-> k, a |-> 0,
                   off |-> 0] :
                     g \in 0..(GrowLimit - 1), k \in 0..(BLOCKS_PER_GROUP - 1)}

BlockSeekPosition ==
    /\ probe.f = "placement" /\ probe.st = "addr"
    /\ probe' = [probe EXCEPT !.st = "seek", !.off = block_seek_position(probe.a)]
    /\ UNCHANGED <<superblock, groups, disk, file_len, last, nops>>

PlaceNext == CreateAddress \/ BlockSeekPosition

PlaceSpec == PlaceInit /\ [][PlaceNext]_vars

\* the byte offset of the bitmap block of group g
BitmapOffset(g) == BLOCK_SIZE + g * (BLOCK_SIZE + BLOCKS_PER_GROUP * BLOCK_SIZE)

\* C29: the byte offset of the block at (g, k) is
\* B + g*(B + G*B) + B + k*B; it is not the superblock's offset 0 nor the
\* offset of any group's bitmap block.
C29_OnDiskPlacement ==
    (probe.f = "placement" /\ probe.st = "seek")
        => /\ probe.off = BitmapOffset(probe.g) + BLOCK_SIZE + probe.k * BLOCK_SIZE
           /\ probe.off # 0
           /\ \A h \in 0..(GrowLimit - 1) : probe.off # BitmapOffset(h)

----------------------------------------------------------------------------
(***************************************************************************)
(* Integrity checks of the directory index (lib.rs:113-148) and of the     *)
(* superblock (lib.rs:795-821).                                            *)
(***************************************************************************)
\* the checksums next to a stored one: none of them matches the record
OtherChecksums(checksum) == {(checksum + d) % 251 : d \in {1, 250}}

\* the image whose superblock block carries checksum c
StoreSuperblockChecksum(fs, c) ==
    [fs EXCEPT !.disk[0].v.checksum = c]

\* the image whose root inode holds the index record with checksum c:
\* save_directory_index without the call of directory_index.checksum()
StoreIndexChecksum(fs, di, c) ==
    Let(get_inode(fs, ROOT_INODE_INDEX), LAMBDA gi :
    IF gi.r # "Ok" THEN [r |-> "Err", fs |-> fs]
    ELSE Let(Map_serialize(di.directories, c), LAMBDA data :
    write_inode_data(fs, gi.inode, data, Len(data))))

\* every call so far, FS::new included, has returned Ok
AllCompleted == last.r = "Ok" /\ ~last.erred

StoredRecordsVerify(fs) ==
    /\ Superblock_verify_checksum(fs.disk[0].v)
    /\ FS_new(fs).r = "Ok"
    /\ get_directory_index(fs).r = "Ok"
    /\ DirectoryIndex_verify_checksum(get_directory_index(fs).di)

SuperblockMismatchFails(fs) ==
    \A c \in OtherChecksums(fs.disk[0].v.checksum) :
        FS_new(StoreSuperblockChecksum(fs, c)).r = "Err"

IndexMismatchFails(fs) ==
    Let(get_directory_index(fs), LAMBDA gdi :
    gdi.r = "Ok" =>
        \A c \in OtherChecksums(gdi.di.checksum) :
            Let(StoreIndexChecksum(fs, gdi.di, c), LAMBDA st :
            st.r = "Ok" =>
                get_directory_index(st.fs) = [r |-> "Err", di |-> NoIndex]))

\* C30: after a sequence of calls that all completed (returned Ok) the
\* stored superblock and the stored directory index verify, so FS::new and
\* get_directory_index succeed; an image whose stored superblock checksum
\* (index checksum) does not match the record makes FS::new
\* (get_directory_index) return an error with no handle (no index).
C30_IntegrityChecks ==
    /\ AllCompleted => StoredRecordsVerify(FSrec)
    /\ SuperblockMismatchFails(FSrec)
    /\ IndexMismatchFails(FSrec)

\* two directories created, the index lives in a data block; the same index
\* stored with a wrong checksum is rejected
C30_Witness ==
    /\ AllCompleted
    /\ last.op = "create_directory"
    /\ Let(get_directory_index(FSrec), LAMBDA gdi :
           /\ gdi.r = "Ok"
           /\ Len(gdi.di.directories) = 2
           /\ Let(StoreIndexChecksum(FSrec, gdi.di, (gdi.di.checksum + 1) % 251),
                  LAMBDA st : /\ st.r = "Ok"
                              /\ get_directory_index(st.fs).r = "Err"))

----------------------------------------------------------------------------
(***************************************************************************)
(* DirectoryIndex::move_dir (lib.rs:1163-1181) on every index over the     *)
(* paths MovePaths.                                                        *)
(***************************************************************************)
MovePaths == {1, 2, 3}

\* inode addresses an index entry can hold (0: the path is absent)
MoveAddrs == {0, 2, 3}

\* the index built by create_dir for every path with a non-zero address
IndexOf(f) ==
    DirectoryIndex_checksum(
        [directories |-> InsertAll(<<>>, SelectSeq([p \in 1..3 |-> <<p, f[p]>>],
                                                    LAMBDA e : e[2] # 0)),
         checksum |-> 0])

MoveInit ==
    /\ FSInit
    /\ probe \in {[f |-> "move_dir", st |-> "in", di |-> IndexOf(f),
                   from |-> from, to |-> to, r |-> "Ok", out |-> NoIndex] :
                     f \in [1..3 -> MoveAddrs], from \in MovePaths, to \in MovePaths}

MoveDir ==
    /\ probe.f = "move_dir" /\ probe.st = "in"
    /\ \E res \in {move_dir(probe.di, probe.from, probe.to)} :
           probe' = [probe EXCEPT !.st = "done", !.r = res.r, !.out = res.di]
    /\ UNCHANGED <<superblock, groups, disk, file_len, last, nops>>

MoveNext == MoveDir

MoveSpec == MoveInit /\ [][MoveNext]_vars

\* C31: move_dir(from, to) returns Ok exactly when from is present and to is
\* absent; then to maps to the address from had, from is absent and every
\* other path maps as before; on Err the index is the one passed in.
C31_MoveDir ==
    (probe.f = "move_dir" /\ probe.st = "done") =>
        /\ probe.r = "Ok" <=> (/\ find_dir(probe.di, probe.from).some
                               /\ ~find_dir(probe.di, probe.to).some)
        /\ probe.r = "Ok" =>
               /\ find_dir(probe.out, probe.to) =
                      [some |-> TRUE, v |-> find_dir(probe.di, probe.from).v]
               /\ ~find_dir(probe.out, probe.from).some
               /\ \A p \in MovePaths \ {probe.from, probe.to} :
                      find_dir(probe.out, p) = find_dir(probe.di, p)
               /\ Len(probe.out.directories) = Len(probe.di.directories)
        /\ probe.r # "Ok" => probe.out = probe.di

\* a move that succeeded next to an entry that stayed
C31_Witness ==
    /\ probe.f = "move_dir" /\ probe.st = "done" /\ probe.r = "Ok"
    /\ Len(probe.di.directories) = 2
    /\ probe.from = 3 /\ probe.to = 1
    /\ find_dir(probe.out, 2).some

----------------------------------------------------------------------------
(***************************************************************************)
(* Ownership of the set bits (create_directory lib.rs:219-247,             *)
(* write_inode_data 497-584, release_inode 714-741).                       *)
(***************************************************************************)
\* the public addresses whose bit is set in the in-memory bitmaps
SetAddrs(grps) ==
    UNION {{create_public_address(g - 1, k - 1) :
                k \in {j \in 1..Len(grps[g]) : grps[g][j]}} : g \in 1..Len(grps)}

\* the objects that own address a: the root index, a directory or a file whose
\* inode is stored at a, a range of a live inode that holds a
OwnersOf(fs, a) ==
    {<<"root", 0, 0>> : b \in {ROOT_INODE_INDEX} \cap {a}}
        \cup {<<"dir", dir, 0>> :
                  dir \in {d \in MapKeys(IndexEntries(fs)) :
                               MapGet(IndexEntries(fs), d).v = a}}
        \cup {<<"file", dn[1], dn[2]>> :
                  dn \in {x \in FileAddrList(fs) : FileAddr(fs, x[1], x[2]) = a}}
        \cup {<<"range", ar[1], ar[2]>> :
                  ar \in {x \in LiveRanges(fs) : a \in RangeOf(fs, x)}}

\* every call of the session returned Ok and the image was never reopened
OneSessionCompleted == AllCompleted /\ ~last.reopened

\* C32: after create_directory, add_file and remove_file calls of one
\* session that all completed, every set bit of every bitmap is owned by
\* exactly one live object: the root index inode, a directory inode, a file
\* inode, or a range of one of those inodes.
C32_NoLeakedBlocks ==
    OneSessionCompleted =>
        \A a \in SetAddrs(groups) : Cardinality(OwnersOf(FSrec, a)) = 1

\* a file that held a range was removed while the index, moved to a data
\* block by the second directory, still owns a range
C32_Witness ==
    /\ OneSessionCompleted
    /\ last.op = "remove_file" /\ last.existed /\ last.was_regions
    /\ \E a \in SetAddrs(groups) :
           \E o \in OwnersOf(FSrec, a) : o[1] = "range" /\ o[2] = ROOT_INODE_INDEX
    /\ \A a \in SetAddrs(groups) : Cardinality(OwnersOf(FSrec, a)) = 1

----------------------------------------------------------------------------
(***************************************************************************)
(* Blocks written by a call against the bitmaps at its return              *)
(* (create_directory lib.rs:233-246, save_directory 199-214, save_inode    *)
(* 411-421).                                                               *)
(***************************************************************************)
\* the inode and data blocks whose stored contents the step changed
WrittenBlocks ==
    {b \in DOMAIN disk' :
        /\ disk'[b].k \in {"ino", "dat"}
        /\ \/ b \notin DOMAIN disk
           \/ disk[b].k # disk'[b].k
           \/ disk[b].v # disk'[b].v}

\* C33: when create_directory, add_file or remove_file returns, every inode
\* block and data block the call wrote has its bit set in the bitmap of its
\* group; nothing is left written in a block whose bit the call released.
C33_WritesHitAllocated ==
    [][(last'.op \in {"create_directory", "add_file", "remove_file"}
            /\ last'.r # "Panic")
          => \A b \in WrittenBlocks : BitIsSet(groups', b)]_vars

=============================================================================
